---- MODULE Spec2Model ----
(***************************************************************************)
(* Model of vconv.py: VirtualConv nodes (wing sizes, padding, stride       *)
(* ratio, parent/child links) and the chain functions recep_field,         *)
(* output_range and shadow.                                                *)
(*                                                                         *)
(* The heap is a sequence of node objects in creation order; an object's   *)
(* identity is its index, and None is 0.  A traversal call is one action:  *)
(* its while-loop is a recursive operator whose fuel is the number of      *)
(* objects plus one, so that running out of fuel means the walk revisited  *)
(* an object and would never end.                                          *)
(***************************************************************************)
EXTENDS Integers, Sequences, FiniteSets

VARIABLES heap, live, ret, arg, res

vars == <<heap, live, ret, arg, res>>

\* ------------------------------------------------------------- bounds
MaxWing == 1
MaxStride == 3
MaxLen == 4
MaxChain == 2
MaxNodes == 3

None == 0

\* ------------------------------------------------------------- arithmetic
Max(a, b) == IF a >= b THEN a ELSE b
Min(a, b) == IF a <= b THEN a ELSE b

\* math.ceil(x / d) for d > 0; the float quotient is exact for the indices of
\* the model (it is for every |x| < 2^53)
Ceil(x, d) == -((-x) \div d)

RECURSIVE GCD(_, _)
GCD(a, b) == IF b = 0 THEN a ELSE GCD(b, a % b)

LCM(a, b) == (a * b) \div GCD(a, b)

\* fractions.Fraction(n, d): lowest terms
Fraction(n, d) == LET g == GCD(n, d) IN [num |-> n \div g, den |-> d \div g]

FracMul(f, g) == Fraction(f.num * g.num, f.den * g.den)

\* np.lcm.reduce(de)
RECURSIVE lcm_reduce(_)
lcm_reduce(de) == IF de = <<>> THEN 1 ELSE LCM(Head(de), lcm_reduce(Tail(de)))

\* ------------------------------------------------------------- results
Ok(v) == [status |-> "ok", val |-> v]
AttributeError == [status |-> "AttributeError", val |-> <<>>]
AssertionError == [status |-> "AssertionError", val |-> <<>>]
Diverges == [status |-> "diverges", val |-> <<>>]

\* ------------------------------------------------------------- node primitives
stride_ratio(n) == [num |-> n.num, den |-> n.den]

\* every attribute the per-node primitives read has been assigned
HasWings(n) == n.has_l /\ n.has_r

\* node_recep_field with the right bound expanded by the right wing only
node_recep_field_rw_only(n, out_b, out_e, out_l) ==
  LET stride == n.num
      in_l == out_l * stride + n.r_wing_sz + n.l_wing_sz - n.l_pad - n.r_pad
  IN <<Max(0, out_b * stride - n.l_pad),
       Min(out_e * stride + n.r_wing_sz - n.l_pad, in_l),
       in_l>>

\* VirtualConv._recep_field, on inclusive (out_b, out_e, out_l)
node_recep_field(n, out_b, out_e, out_l) ==
  LET lw == n.l_wing_sz
      rw == n.r_wing_sz
      lp == n.l_pad
      rp == n.r_pad
  IN IF n.num >= n.den
     THEN LET stride == n.num
              out_dense_b == out_b * stride
              out_dense_e == out_e * stride
              out_dense_l == out_l * stride
              p_in_b == out_dense_b - lw + lw
              p_in_e == out_dense_e + rw + lw
              p_in_l == out_dense_l + rw + lw
              in_b == Max(0, p_in_b - lp)
              in_l == p_in_l - lp - rp
              in_e == Min(p_in_e - lp, in_l)
          IN <<in_b, in_e, in_l>>
     ELSE LET inv_stride == n.den
              sp_in_b == out_b - lw + lw
              sp_in_e == out_e + rw + lw
              s_in_b == Max(0, sp_in_b - lp)
              s_in_l == out_l - lw - rw
              s_in_e == Min(sp_in_e - lp, s_in_l)
              in_b == Ceil(s_in_b, inv_stride)
              in_e == s_in_e \div inv_stride
              in_l == s_in_l \div inv_stride
          IN <<in_b, in_e, in_l>>

\* VirtualConv._output_range, on inclusive (in_b, in_e, in_l)
node_output_range(n, in_b, in_e, in_l) ==
  LET lw == n.l_wing_sz
      rw == n.r_wing_sz
      lp == n.l_pad
      rp == n.r_pad
  IN IF n.num >= n.den
     THEN LET stride == n.num
              p_in_b == in_b + (IF in_b # 0 THEN lp ELSE 0)
              p_in_e == in_e + lp + (IF in_e = in_l THEN rp ELSE 0)
              p_in_l == in_l + lp + rp
              out_b == IF p_in_b + lw + rw > p_in_l
                       THEN -1
                       ELSE Ceil(p_in_b + lw - lw, stride)
              out_e == IF p_in_e - lw - rw < 0
                       THEN -1
                       ELSE (p_in_e - rw - lw) \div stride
              out_l == IF p_in_l - lw - rw < 0
                       THEN -1
                       ELSE (p_in_l - lw - rw) \div stride
          IN <<out_b, out_e, out_l>>
     ELSE LET inv_stride == n.den
              sp_in_b == in_b * inv_stride + (IF in_b # 0 THEN lp ELSE 0)
              sp_in_e == in_e * inv_stride + lp + (IF in_e = in_l THEN rp ELSE 0)
              sp_in_l == in_l * inv_stride + lp + rp
              out_b == IF sp_in_b + lw + rw > sp_in_l
                       THEN -1
                       ELSE sp_in_b + lw - lw
              out_e == Max(-1, sp_in_e - rw - lw)
              out_l == Max(-1, sp_in_l - rw - lw)
          IN <<out_b, out_e, out_l>>

\* ------------------------------------------------------------- chain walks
\* the while-loop of recep_field: apply the node, stop at source, else go to
\* the parent
RECURSIVE recep_field_walk(_, _, _, _, _)
recep_field_walk(h, vc, source, t, fuel) ==
  IF fuel = 0 THEN Diverges
  ELSE IF vc = None THEN AttributeError
  ELSE IF ~HasWings(h[vc]) THEN AttributeError
  ELSE IF h[vc].l_pad + h[vc].r_pad > h[vc].l_wing_sz + h[vc].r_wing_sz
       THEN AssertionError
  ELSE LET t2 == node_recep_field(h[vc], t[1], t[2], t[3])
       IN IF vc = source
          THEN Ok(t2)
          ELSE recep_field_walk(h, h[vc].parent, source, t2, fuel - 1)

\* recep_field returning the inclusive end of the range as if it were exclusive
recep_field_inclusive_end(h, source, dest, out_b, out_e, out_len) ==
  IF out_b = out_e
  THEN Ok(<<0, 0, 0>>)
  ELSE LET r == recep_field_walk(h, dest, source,
                                 <<out_b, out_e - 1, out_len - 1>>, Len(h) + 1)
       IN IF r.status = "ok"
          THEN Ok(<<r.val[1], r.val[2], r.val[3] + 1>>)
          ELSE r

\* recep_field(source, dest, out_b, out_e, out_len)
recep_field(h, source, dest, out_b, out_e, out_len) ==
  IF out_b = out_e
  THEN Ok(<<0, 0, 0>>)
  ELSE LET r == recep_field_walk(h, dest, source,
                                 <<out_b, out_e - 1, out_len - 1>>, Len(h) + 1)
       IN IF r.status = "ok"
          THEN Ok(<<r.val[1], r.val[2] + 1, r.val[3] + 1>>)
          ELSE r

\* the walk also stops at the last node of the chain
at_dest_or_end(h, vc, dest) == vc = dest \/ h[vc].child = None

\* "if vc is dest: break" of output_range
at_dest(h, vc, dest) == vc = dest

\* the while-loop of output_range: apply the node, stop at dest, else go to
\* the child
RECURSIVE output_range_walk(_, _, _, _, _)
output_range_walk(h, vc, dest, t, fuel) ==
  IF fuel = 0 THEN Diverges
  ELSE IF vc = None THEN AttributeError
  ELSE IF ~HasWings(h[vc]) THEN AttributeError
  ELSE LET t2 == node_output_range(h[vc], t[1], t[2], t[3])
       IN IF at_dest(h, vc, dest)
          THEN Ok(t2)
          ELSE output_range_walk(h, h[vc].child, dest, t2, fuel - 1)

\* output_range without the test for the empty range
output_range_no_empty_test(h, source, dest, in_b, in_e, in_len) ==
  LET r == output_range_walk(h, source, dest,
                             <<in_b, in_e - 1, in_len - 1>>, Len(h) + 1)
  IN IF r.status = "ok"
     THEN Ok(<<r.val[1], r.val[2] + 1, r.val[3] + 1>>)
     ELSE r

\* output_range(source, dest, in_b, in_e, in_len)
output_range(h, source, dest, in_b, in_e, in_len) ==
  IF in_b = in_e
  THEN Ok(<<0, 0, 0>>)
  ELSE LET r == output_range_walk(h, source, dest,
                                  <<in_b, in_e - 1, in_len - 1>>, Len(h) + 1)
       IN IF r.status = "ok"
          THEN Ok(<<r.val[1], r.val[2] + 1, r.val[3] + 1>>)
          ELSE r

\* the first loop of shadow: the denominators of the running product of the
\* stride ratios from source to dest
RECURSIVE spacing_denoms(_, _, _, _, _, _)
spacing_denoms(h, vc, dest, spacing, de, fuel) ==
  IF fuel = 0 THEN Diverges
  ELSE IF vc = None THEN AttributeError
  ELSE LET sp2 == FracMul(spacing, stride_ratio(h[vc]))
           de2 == Append(de, sp2.den)
       IN IF vc = dest
          THEN Ok(de2)
          ELSE spacing_denoms(h, h[vc].child, dest, sp2, de2, fuel - 1)

\* the end of _shadow: physical positions, reduced by gcd(lcm, final spacing)
shadow_finish(b, e, sp, pf, spacing_denom_lcm) ==
  LET pb == pf + b * sp
      pe == pf + e * sp
      reduce_sp == GCD(spacing_denom_lcm, sp)
  IN IF pb % reduce_sp # 0 \/ pe % reduce_sp # 0
     THEN AssertionError
     ELSE Ok(<<pb \div reduce_sp, (pe \div reduce_sp) + 1>>)

\* the offset scaled by the spacing after the node
shadow_offset_sp_after(n, sp_prev, sp, pf) == pf + (n.l_wing_sz - n.l_pad) * sp

\* the running offset of _shadow: the node's left wing minus its left padding,
\* scaled by the spacing before the node
shadow_offset(n, sp_prev, sp, pf) == pf + (n.l_wing_sz - n.l_pad) * sp_prev

\* the while-loop of _shadow
RECURSIVE shadow_walk(_, _, _, _, _, _, _, _)
shadow_walk(h, vc, dest, t, sp, pf, spacing_denom_lcm, fuel) ==
  IF fuel = 0 THEN Diverges
  ELSE IF vc = None THEN AttributeError
  ELSE IF ~HasWings(h[vc]) THEN AttributeError
  ELSE LET n == h[vc]
           t2 == node_output_range(n, t[1], t[2], t[3])
       IN IF (sp * n.num) % n.den # 0
          THEN AssertionError
          ELSE LET sp2 == (sp * n.num) \div n.den
                   pf2 == shadow_offset(n, sp, sp2, pf)
               IN IF vc = dest
                  THEN shadow_finish(t2[1], t2[2], sp2, pf2, spacing_denom_lcm)
                  ELSE shadow_walk(h, n.child, dest, t2, sp2, pf2,
                                   spacing_denom_lcm, fuel - 1)

\* shadow(source, dest, in_b, in_e, in_l)
shadow(h, source, dest, in_b, in_e, in_l) ==
  LET d == spacing_denoms(h, source, dest, Fraction(1, 1), <<>>, Len(h) + 1)
  IN IF d.status # "ok"
     THEN d
     ELSE LET spacing_denom_lcm == lcm_reduce(d.val)
          IN shadow_walk(h, source, dest, <<in_b, in_e - 1, in_l - 1>>,
                         spacing_denom_lcm, 0, spacing_denom_lcm, Len(h) + 1)

\* ------------------------------------------------------------- construction
\* filter_info values: a tuple of any length, an integer size, or anything else
TupleInfo(t) == [kind |-> "tuple", val |-> t]
IntInfo(k) == [kind |-> "int", val |-> <<k>>]
OtherInfo == [kind |-> "other", val |-> <<>>]

\* the wing attributes VirtualConv.__init__ assigns, and the exception the
\* filter_info branch raises, if any
filter_wings(fi) ==
  IF fi.kind = "tuple"
  THEN IF Len(fi.val) = 0
       THEN [l |-> 0, r |-> 0, has_l |-> FALSE, has_r |-> FALSE, err |-> "IndexError"]
       ELSE IF Len(fi.val) = 1
       THEN [l |-> fi.val[1], r |-> 0, has_l |-> TRUE, has_r |-> FALSE, err |-> "IndexError"]
       ELSE [l |-> fi.val[1], r |-> fi.val[2], has_l |-> TRUE, has_r |-> TRUE, err |-> "none"]
  ELSE IF fi.kind = "int"
  THEN LET total_wing_sz == fi.val[1] - 1
           l_wing_sz == total_wing_sz \div 2
       IN [l |-> l_wing_sz, r |-> total_wing_sz - l_wing_sz,
           has_l |-> TRUE, has_r |-> TRUE, err |-> "none"]
  ELSE [l |-> 0, r |-> 0, has_l |-> FALSE, has_r |-> FALSE, err |-> "InvalidFilterSpec"]

\* the object VirtualConv.__init__ leaves behind, returned or not
new_node(filter_info, padding, stride, is_downsample, parent) ==
  LET w == filter_wings(filter_info)
      sr == IF is_downsample THEN Fraction(stride, 1) ELSE Fraction(1, stride)
  IN [parent |-> parent, child |-> None,
      l_pad |-> padding[1], r_pad |-> padding[2],
      num |-> sr.num, den |-> sr.den,
      l_wing_sz |-> w.l, r_wing_sz |-> w.r, has_l |-> w.has_l, has_r |-> w.has_r]

\* how VirtualConv.__init__ ends: "ok" or the exception raised
init_status(filter_info, padding) ==
  LET w == filter_wings(filter_info)
  IN IF w.err # "none" THEN w.err
     ELSE IF padding[1] > w.l \/ padding[2] > w.r THEN "PaddingExceedsWing"
     ELSE "ok"

\* the heap after VirtualConv.__init__: the parent's child link is assigned
\* before any validation, the new object is appended
link_parent(h, parent, self) ==
  IF parent # None THEN [h EXCEPT ![parent].child = self] ELSE h

heap_after_init(h, filter_info, padding, stride, is_downsample, parent) ==
  Append(link_parent(h, parent, Len(h) + 1),
         new_node(filter_info, padding, stride, is_downsample, parent))

NoCall == [op |-> "none", source |-> None, dest |-> None, args |-> <<>>,
           status |-> "none", val |-> <<>>, orig |-> <<>>]

NoRet == [status |-> "none", node |-> None, filter_info |-> OtherInfo]

\* VirtualConv(filter_info, padding, stride, is_downsample, parent)
Construct(filter_info, padding, stride, is_downsample, parent) ==
  /\ Len(heap) < MaxNodes
  /\ res = NoCall
  /\ LET st == init_status(filter_info, padding)
         self == Len(heap) + 1
     IN /\ heap' = heap_after_init(heap, filter_info, padding, stride,
                                   is_downsample, parent)
        /\ live' = IF st = "ok" THEN live \cup {self} ELSE live
        /\ ret' = [status |-> st, node |-> IF st = "ok" THEN self ELSE None,
                   filter_info |-> filter_info]
  /\ UNCHANGED <<arg, res>>

\* ------------------------------------------------------------- calls
CallRecord(op, source, dest, t, r, orig) ==
  [op |-> op, source |-> source, dest |-> dest, args |-> t,
   status |-> r.status, val |-> r.val, orig |-> orig]

CallRecepField(source, dest, t) ==
  /\ res = NoCall
  /\ res' = CallRecord("recep_field", source, dest, t,
                       recep_field(heap, source, dest, t[1], t[2], t[3]), <<>>)
  /\ UNCHANGED <<heap, live, ret>>

CallOutputRange(source, dest, t) ==
  /\ res = NoCall
  /\ res' = CallRecord("output_range", source, dest, t,
                       output_range(heap, source, dest, t[1], t[2], t[3]), <<>>)
  /\ UNCHANGED <<heap, live, ret>>

CallShadow(source, dest, t) ==
  /\ res = NoCall
  /\ res' = CallRecord("shadow", source, dest, t,
                       shadow(heap, source, dest, t[1], t[2], t[3]), <<>>)
  /\ UNCHANGED <<heap, live, ret>>

\* output_range applied to the range the last recep_field call returned, over
\* the same source and dest; orig remembers the output range it came from
CallOutputRangeOfRecepField ==
  /\ res.op = "recep_field"
  /\ res.status = "ok"
  /\ res' = CallRecord("output_range", res.source, res.dest, res.val,
                       output_range(heap, res.source, res.dest,
                                    res.val[1], res.val[2], res.val[3]),
                       res.args)
  /\ UNCHANGED <<heap, live, ret, arg>>

\* the caller has taken the result of the last call
Return ==
  /\ res # NoCall
  /\ res' = NoCall
  /\ UNCHANGED <<heap, live, ret, arg>>

\* ------------------------------------------------------------- inputs
Wings == 0..MaxWing
Strides == 1..MaxStride

\* half-open ranges [b, e) of an axis of length L, the empty ones included
Ranges(maxlen) ==
  {<<b, e, L>> : b \in 0..maxlen, e \in 0..maxlen, L \in 1..maxlen} 

ValidRanges(maxlen) == {t \in Ranges(maxlen) : t[1] <= t[2] /\ t[2] <= t[3]}

CallRanges == ValidRanges(MaxLen)

\* the arguments of a valid construction
ValidConfigs ==
  {c \in [lw : Wings, rw : Wings, lp : Wings, rp : Wings,
          stride : Strides, down : BOOLEAN] :
     c.lp <= c.lw /\ c.rp <= c.rw}

\* the heap after constructing the nodes of cfgs in order, each with the
\* previous one as its parent
RECURSIVE build_chain(_)
build_chain(cfgs) ==
  IF cfgs = <<>> THEN <<>>
  ELSE LET h == build_chain(SubSeq(cfgs, 1, Len(cfgs) - 1))
           c == cfgs[Len(cfgs)]
       IN heap_after_init(h, TupleInfo(<<c.lw, c.rw>>), <<c.lp, c.rp>>,
                          c.stride, c.down, Len(h))

\* the chains of 1..maxchain validly constructed nodes
Chains(maxchain) ==
  UNION {{build_chain(cfgs) : cfgs \in [1..n -> ValidConfigs]} : n \in 1..maxchain}

\* ------------------------------------------------------------- specifications
\* Spec: any sequence of constructions, valid or not
FilterInfos ==
  {TupleInfo(t) : t \in UNION {[1..n -> Wings] : n \in 1..3}}
    \cup {IntInfo(k) : k \in 1..(2 * MaxWing + 1)} \cup {OtherInfo}

Paddings == {<<lp, rp>> : lp \in Wings, rp \in Wings}

Init ==
  /\ heap = <<>>
  /\ live = {}
  /\ ret = NoRet
  /\ arg = <<0, 0, 0>>
  /\ res = NoCall

Next ==
  /\ Len(heap) < MaxNodes
  /\ \E fi \in FilterInfos, pad \in Paddings, down \in BOOLEAN,
        parent \in live \cup {None} :
       Construct(fi, pad, MaxStride, down, parent)

Spec == Init /\ [][Next]_vars

\* SpecWalk: constructions, valid or not, and calls between any two nodes
\* the caller holds
\* (filter_info, padding) of a valid node, of a padding that exceeds its wing
\* and of an invalid filter spec
WalkInputs ==
  {<<TupleInfo(<<MaxWing, MaxWing>>), <<0, 0>>>>,
   <<TupleInfo(<<MaxWing, MaxWing>>), <<MaxWing + 1, 0>>>>,
   <<OtherInfo, <<0, 0>>>>}

NextWalk ==
  \/ /\ res = NoCall
     /\ \E in \in WalkInputs, down \in BOOLEAN, parent \in live \cup {None} :
          Construct(in[1], in[2], MaxStride, down, parent)
  \/ /\ res = NoCall
     /\ \E s \in live, d \in live, t \in CallRanges :
          CallRecepField(s, d, t) /\ UNCHANGED arg
  \/ /\ res = NoCall
     /\ \E s \in live, d \in live, t \in CallRanges :
          CallOutputRange(s, d, t) /\ UNCHANGED arg
  \/ /\ res = NoCall
     /\ \E s \in live, d \in live, t \in CallRanges :
          CallShadow(s, d, t) /\ UNCHANGED arg
  \/ Return

SpecWalk == Init /\ [][NextWalk]_vars

\* SpecChain: calls on a chain of validly constructed nodes, with the range
\* chosen at the start
InitChain ==
  /\ heap \in Chains(MaxChain)
  /\ live = 1..Len(heap)
  /\ ret = NoRet
  /\ arg \in CallRanges
  /\ res = NoCall

NextChain ==
  \/ /\ res = NoCall
     /\ \E s \in live, d \in live : CallRecepField(s, d, arg) /\ UNCHANGED arg
  \/ /\ res = NoCall
     /\ \E s \in live, d \in live : CallOutputRange(s, d, arg) /\ UNCHANGED arg
  \/ /\ res = NoCall
     /\ \E s \in live, d \in live : CallShadow(s, d, arg) /\ UNCHANGED arg
  \/ CallOutputRangeOfRecepField

SpecChain == InitChain /\ [][NextChain]_vars

\* SpecIdentity: calls on a chain of identity nodes (wings (0,0), padding
\* (0,0), stride 1)
IdentityNode == [lw |-> 0, rw |-> 0, lp |-> 0, rp |-> 0, stride |-> 1, down |-> TRUE]

InitIdentity ==
  /\ heap \in {build_chain([i \in 1..n |-> IdentityNode]) : n \in 1..MaxChain}
  /\ live = 1..Len(heap)
  /\ ret = NoRet
  /\ arg \in CallRanges
  /\ res = NoCall

NextIdentity ==
  \/ \E s \in live, d \in live : CallRecepField(s, d, arg) /\ UNCHANGED arg
  \/ \E s \in live, d \in live : CallOutputRange(s, d, arg) /\ UNCHANGED arg

SpecIdentity == InitIdentity /\ [][NextIdentity]_vars

\* SpecScenarioA: calls on the single node of scenario A (wings (1,1),
\* padding (0,0), stride 2, downsampling), inputs up to length ScenarioLen
ScenarioLen == 7

ScenarioNode == [lw |-> 1, rw |-> 1, lp |-> 0, rp |-> 0, stride |-> 2, down |-> TRUE]

InitScenarioA ==
  /\ heap = build_chain(<<ScenarioNode>>)
  /\ live = {1}
  /\ ret = NoRet
  /\ arg \in ValidRanges(ScenarioLen)
  /\ res = NoCall

NextScenarioA ==
  \/ CallRecepField(1, 1, arg) /\ UNCHANGED arg
  \/ CallOutputRange(1, 1, arg) /\ UNCHANGED arg
  \/ CallShadow(1, 1, arg) /\ UNCHANGED arg

SpecScenarioA == InitScenarioA /\ [][NextScenarioA]_vars

\* ------------------------------------------------------------- properties
\* the last call asked for a nonempty range 0 <= b < e <= L
NonEmptyArgs(t) == 0 <= t[1] /\ t[1] < t[2] /\ t[2] <= t[3]

\* the last call was made directly by the caller, on a sub-chain of the chain
DirectCall(op) == res.op = op /\ res.orig = <<>> /\ res.source <= res.dest

\* the last call was output_range on the result of recep_field for a nonempty
\* output range, on a sub-chain of the chain
RoundTrip ==
  /\ res.op = "output_range"
  /\ res.orig # <<>>
  /\ NonEmptyArgs(res.orig)
  /\ res.source <= res.dest

Contains == res.status = "ok" /\ res.val[1] <= res.orig[1] /\ res.val[2] >= res.orig[2]

ShadowWholeInput == res.op = "shadow" /\ res.args = <<0, 7, 7>>

\* C2 as stated: on scenario A's node, shadow(node, node, 0, 7, 7) = (0, 7).
C2_ShadowWholeInputIsWholeInput ==
  ShadowWholeInput => (res.status = "ok" /\ res.val = <<0, 7>>)

\* C2 amended: on scenario A's node, shadow(node, node, 0, 7, 7) = (1, 6).
C2_ShadowWholeInputIsOneToSix ==
  ShadowWholeInput => (res.status = "ok" /\ res.val = <<1, 6>>)

C2_Witness == ShadowWholeInput /\ res.status = "ok"

\* the last construction did not give the caller a node
ConstructionFailed ==
  ret.status # "ok" /\ ret.node = None /\ Len(heap) \notin live

IsPairOrInt(fi) == (fi.kind = "tuple" /\ Len(fi.val) = 2) \/ fi.kind = "int"

\* C3: a construction fails whenever a padding exceeds its wing, and whenever
\* the filter spec is neither a pair nor an integer; no node is returned.
C3_InvalidConstructionFails ==
  ret.status # "none" =>
    LET n == heap[Len(heap)]
    IN /\ ((n.has_l /\ n.l_pad > n.l_wing_sz) \/ (n.has_r /\ n.r_pad > n.r_wing_sz))
            => ConstructionFailed
       /\ ~IsPairOrInt(ret.filter_info) => ConstructionFailed

IsIdentity(n) ==
  /\ n.l_wing_sz = 0 /\ n.r_wing_sz = 0
  /\ n.l_pad = 0 /\ n.r_pad = 0
  /\ n.num = 1 /\ n.den = 1

\* C4: over identity nodes, one or several, recep_field and output_range
\* return the nonempty range and the length they were given.
C4_Identity ==
  ((DirectCall("recep_field") \/ DirectCall("output_range"))
     /\ NonEmptyArgs(res.args)
     /\ \A i \in res.source..res.dest : IsIdentity(heap[i]))
    => (res.status = "ok" /\ res.val = res.args)

C4_Witness ==
  /\ DirectCall("recep_field")
  /\ res.source = 1 /\ res.dest = 2
  /\ IsIdentity(heap[1]) /\ IsIdentity(heap[2])
  /\ res.args = <<1, 3, 4>>
  /\ res.val = <<1, 3, 4>>

\* the nodes met by following the link (child or parent) from vc, vc included
RECURSIVE Followed(_, _, _)
Followed(vc, forward, fuel) ==
  IF vc = None \/ fuel = 0 THEN {}
  ELSE {vc} \cup Followed(IF forward THEN heap[vc].child ELSE heap[vc].parent,
                          forward, fuel - 1)

\* C5: recep_field and output_range return (0, 0, 0) for every empty range
\* (k, k, L), whatever the source and dest, reachable from each other or not.
C5_EmptyRange ==
  (res.op \in {"recep_field", "output_range"} /\ res.args[1] = res.args[2])
    => (res.status = "ok" /\ res.val = <<0, 0, 0>>)

\* the empty range (2, 2, 4) asked of output_range from a node to one that is
\* not among its successors
C5_Witness ==
  /\ res.op = "output_range"
  /\ res.source = 2 /\ res.dest = 1
  /\ res.dest \notin Followed(res.source, TRUE, Len(heap))
  /\ res.args = <<2, 2, 4>>
  /\ res.val = <<0, 0, 0>>

\* C6: for a nonempty input range, output_range never returns a negative
\* out_b nor an out_b greater than out_e.
C6_OutputRangeWellFormed ==
  (DirectCall("output_range") /\ NonEmptyArgs(res.args) /\ res.status = "ok")
    => (0 <= res.val[1] /\ res.val[1] <= res.val[2])

\* the endpoint the walk of the last call looks for is not on its way
Mismatch ==
  IF res.op = "recep_field"
  THEN res.source \notin Followed(res.dest, FALSE, Len(heap))
  ELSE res.dest \notin Followed(res.source, TRUE, Len(heap))

\* C7: no call runs forever, and a call for a nonempty range whose walk does not
\* meet the requested endpoint ends with an error and returns no range.
C7_MismatchIsAnError ==
  res.op # "none" =>
    /\ res.status # "diverges"
    /\ (NonEmptyArgs(res.args) /\ Mismatch)
         => (res.status \in {"AttributeError", "AssertionError"} /\ res.val = <<>>)

\* output_range from a node to a node constructed on it that is no longer
\* its child
C7_Witness ==
  /\ res.op = "output_range"
  /\ NonEmptyArgs(res.args)
  /\ heap[res.dest].parent = res.source
  /\ heap[res.source].child \notin {res.dest, None}
  /\ HasWings(heap[heap[res.source].child])
  /\ res.status = "AttributeError"

\* C8: a construction that fails leaves every existing node as it was.
C8_FailedConstructionChangesNothing ==
  [][(ret'.status \notin {"ok", "none"} /\ Len(heap') = Len(heap) + 1)
       => SubSeq(heap', 1, Len(heap)) = heap]_vars

\* C9: shadow of a nonempty input range over a validly constructed chain
\* passes its divisibility checks and returns a range.
C9_ShadowReturnsARange ==
  (DirectCall("shadow") /\ NonEmptyArgs(res.args)) => res.status = "ok"

\* C10: every node with a predecessor is the successor of that predecessor.
C10_LinkReciprocity ==
  \A n \in live :
    heap[n].parent # None => heap[heap[n].parent].child = n
====
